---- MODULE Spec2Model ----
(***************************************************************************)
(* Model of src/app.py (Agentic Data Sanitizer): one Streamlit script run  *)
(* of main() that executes the pipeline                                    *)
(*   credentials check -> Sandbox() -> upload_dataset -> chat_with_llm     *)
(*   (model call, match_code_blocks, code_interpret) -> rendering ->       *)
(*   Sandbox.__exit__.                                                     *)
(*                                                                         *)
(* Text is a sequence of tokens.  FENCE is the three-backtick marker, PY   *)
(* the word "python", NL a newline (the only whitespace token) and TXT any *)
(* other non-whitespace text.  The regular expression of line 23 is        *)
(*   FENCE PY NL <any tokens, non-greedy> NL FENCE   (DOTALL).            *)
(*                                                                         *)
(* Not modelled: the column probe of lines 46-50 and the prompt text of    *)
(* lines 52-61 (they only feed the model call), the Health Score metric of *)
(* lines 291-296 (guarded by its own try/except), and the page layout.     *)
(***************************************************************************)
EXTENDS Integers, Sequences, FiniteSets, TLC

FENCE == "fence"   \* the three-backtick marker
PY    == "python"
NL    == "\n"
TXT   == "x"

(* ---- bounds ---- *)
MaxSegs      == 4   \* segments of a model response in the pipeline
MaxTextSegs  == 6   \* segments of a text given to the extractor alone
MaxArtifacts == 2   \* length of exec.results
MaxErrLen    == 2   \* tokens of str(e)

(* ------------------------------------------------------------------ *)
(* pattern: the compiled regular expression of line 23                *)
(* ------------------------------------------------------------------ *)
IsOpenAt(s, i) ==
  /\ i >= 1
  /\ i + 2 <= Len(s)
  /\ s[i] = FENCE /\ s[i+1] = PY /\ s[i+2] = NL

IsCloseAt(s, j) ==
  /\ j >= 1
  /\ j + 1 <= Len(s)
  /\ s[j] = NL /\ s[j+1] = FENCE

\* the pattern matches starting at i: opener at i and some closer after it
MatchAt(s, i) ==
  /\ IsOpenAt(s, i)
  /\ \E j \in (i+3)..Len(s) : IsCloseAt(s, j)

\* non-greedy group: the first closer at or after the end of the opener
CloseOf(s, i) ==
  CHOOSE j \in (i+3)..Len(s) :
    /\ IsCloseAt(s, j)
    /\ \A k \in (i+3)..(j-1) : ~IsCloseAt(s, k)

\* pattern.search(s, pos): leftmost match start at or after from, 0 if none
Search(s, from) ==
  IF \E i \in from..Len(s) : MatchAt(s, i)
  THEN CHOOSE i \in from..Len(s) :
         /\ MatchAt(s, i)
         /\ \A k \in from..(i-1) : ~MatchAt(s, k)
  ELSE 0

\* variant: an unterminated fence is taken to run to the end of the text
match_code_blocks_open_ended(llm_response) ==
  LET i == Search(llm_response, 1)
  IN  IF i # 0
      THEN SubSeq(llm_response, i + 3, CloseOf(llm_response, i) - 1)
      ELSE IF \E k \in 1..Len(llm_response) : IsOpenAt(llm_response, k)
           THEN LET k == CHOOSE k \in 1..Len(llm_response) :
                           IsOpenAt(llm_response, k)
                IN  SubSeq(llm_response, k + 3, Len(llm_response))
           ELSE <<>>

match_code_blocks(llm_response) ==
  LET i == Search(llm_response, 1)
  IN  IF i # 0
      THEN SubSeq(llm_response, i + 3, CloseOf(llm_response, i) - 1)
      ELSE <<>>

RECURSIVE SubFrom(_, _)
SubFrom(s, from) ==
  LET i == Search(s, from)
  IN  IF i = 0
      THEN SubSeq(s, from, Len(s))
      ELSE SubSeq(s, from, i - 1) \o SubFrom(s, CloseOf(s, i) + 2)

\* variant: pattern.sub("", s, count=1)
pattern_sub_first(s) ==
  LET i == Search(s, 1)
  IN  IF i = 0 THEN s
      ELSE SubSeq(s, 1, i - 1) \o SubSeq(s, CloseOf(s, i) + 2, Len(s))

\* pattern.sub("", s): every non-overlapping match, leftmost first, deleted
pattern_sub(s) == SubFrom(s, 1)

IsSpace(c) == c = NL

RECURSIVE lstrip(_)
lstrip(s) == IF s # <<>> /\ IsSpace(Head(s)) THEN lstrip(Tail(s)) ELSE s

RECURSIVE rstrip(_)
rstrip(s) ==
  IF s # <<>> /\ IsSpace(s[Len(s)]) THEN rstrip(SubSeq(s, 1, Len(s) - 1)) ELSE s

\* str.strip()
strip(s) == rstrip(lstrip(s))

\* text_report of line 280
text_report(llm_response) == strip(pattern_sub(llm_response))

\* "\n".join(lines)
RECURSIVE join(_)
join(lines) ==
  IF lines = <<>> THEN <<>>
  ELSE IF Len(lines) = 1 THEN <<lines[1]>>
  ELSE <<lines[1], NL>> \o join(Tail(lines))

\* "429" in str(e) or "ResourceExhausted" in str(e)
Contains(t, tok) == \E i \in DOMAIN t : t[i] = tok
IsRateLimit(e) == Contains(e, "429") \/ Contains(e, "ResourceExhausted")


(* ------------------------------------------------------------------ *)
(* Inputs                                                             *)
(* ------------------------------------------------------------------ *)
OPEN  == <<FENCE, PY, NL>>
CLOSE == <<NL, FENCE>>

RECURSIVE TextsOf(_, _)
TextsOf(S, n) ==
  IF n = 0 THEN {<<>>}
  ELSE LET T == TextsOf(S, n - 1)
       IN  T \cup {t \o g : t \in T, g \in S}

\* texts the model may answer with
Responses == TextsOf({OPEN, CLOSE, <<TXT>>}, MaxSegs)

\* texts the text functions are applied to on their own
Texts == TextsOf({OPEN, CLOSE, <<TXT>>, <<NL>>, <<FENCE>>}, MaxTextSegs)

RECURSIVE SeqsUpTo(_, _)
SeqsUpTo(S, n) ==
  IF n = 0 THEN {<<>>}
  ELSE LET T == SeqsUpTo(S, n - 1)
       IN  T \cup {Append(t, x) : t \in T, x \in S}

\* str(e) of an exception raised by a remote call
ErrTexts == SeqsUpTo({"429", "ResourceExhausted", TXT}, MaxErrLen)

\* what one element of exec.results exposes: a non-empty png attribute, a
\* figure attribute, being a DataFrame or Series
Artifacts == [png : BOOLEAN, figure : BOOLEAN, frame : BOOLEAN]

ResultLists == SeqsUpTo(Artifacts, MaxArtifacts)
StdoutLists == {<<>>, <<TXT, TXT>>}
StderrLists == {<<>>, <<TXT>>}
Keys        == {"", "k"}

NoneResults    == [none |-> TRUE,  items |-> <<>>]
SomeResults(r) == [none |-> FALSE, items |-> r]

\* variant: "is not None" in place of truthiness
Truthy_not_none(cr) == ~cr.none

\* "if code_results:" of line 300
Truthy(cr) == ~cr.none /\ cr.items # <<>>


NoExc == [site |-> "none", text |-> <<>>]
NoExecution == [ran |-> FALSE, results |-> <<>>, stdout |-> <<>>, stderr |-> <<>>]

(* ------------------------------------------------------------------ *)
(* State                                                              *)
(* ------------------------------------------------------------------ *)
VARIABLES
  pc,              \* position of main() in the current script run
  google_api_key,  \* st.session_state.google_api_key
  e2b_api_key,     \* st.session_state.e2b_api_key
  session,         \* the Sandbox: "none", "open", "closed"
  releases,        \* Sandbox.__exit__ calls
  uploads,         \* files.write calls
  model_calls,     \* generate_content calls
  execs,           \* run_code calls
  response_text,   \* chat_with_llm: response_text
  python_code,     \* chat_with_llm: python_code
  exec,            \* code_interpret: the Execution returned by run_code
  code_results,    \* main: code_results
  llm_response,    \* main: llm_response
  code_stdout,     \* main: code_stdout
  raised,          \* the exception raised in this run, if any
  uncaught,        \* an exception left main()
  errors,          \* st.error messages, in order
  warnings,        \* st.warning messages, in order
  stderr_log,      \* what code_interpret printed to sys.stderr
  shown_report,    \* the "Analyst Strategy" markdown, <<>> if not shown
  shown_log,       \* the "Execution Log" st.code, <<>> if not shown
  displayed,       \* one tag per artifact the visual tab handled
  shown_raw        \* the "AI Insight" tab was filled

counters == <<releases, uploads, model_calls, execs>>
returned == <<code_results, llm_response, code_stdout>>
ui       == <<errors, warnings, shown_report, shown_log, displayed, shown_raw>>
locals   == <<response_text, python_code, exec>>
vars == <<pc, google_api_key, e2b_api_key, session, counters, locals,
          returned, raised, uncaught, stderr_log, ui>>

Init ==
  /\ pc = "idle"
  /\ google_api_key = "" /\ e2b_api_key = ""
  /\ session = "none"
  /\ releases = 0 /\ uploads = 0 /\ model_calls = 0 /\ execs = 0
  /\ response_text = <<>> /\ python_code = <<>>
  /\ exec = NoExecution
  /\ code_results = NoneResults /\ llm_response = <<>> /\ code_stdout = <<>>
  /\ raised = NoExc
  /\ uncaught = FALSE
  /\ errors = <<>> /\ warnings = <<>>
  /\ stderr_log = <<>>
  /\ shown_report = <<>> /\ shown_log = <<>> /\ displayed = <<>>
  /\ shown_raw = FALSE


(* ------------------------------------------------------------------ *)
(* main(), lines 266-271: the button press and the credentials check  *)
(* ------------------------------------------------------------------ *)
\* variant: the credentials check with "and" in place of "or"
Start_either_key ==
  /\ pc = "idle"
  /\ \E g \in Keys, k \in Keys :
       /\ google_api_key' = g
       /\ e2b_api_key' = k
       /\ IF g = "" /\ k = ""
          THEN /\ errors' = Append(errors, "MissingKeys")
               /\ pc' = "done"
          ELSE /\ errors' = errors
               /\ pc' = "acquire"
  /\ UNCHANGED <<session, counters, locals, returned, raised, uncaught,
                 stderr_log, warnings, shown_report, shown_log, displayed,
                 shown_raw>>

Start ==
  /\ pc = "idle"
  /\ \E g \in Keys, k \in Keys :
       /\ google_api_key' = g
       /\ e2b_api_key' = k
       /\ IF g = "" \/ k = ""
          THEN /\ errors' = Append(errors, "MissingKeys")
               /\ pc' = "done"
          ELSE /\ errors' = errors
               /\ pc' = "acquire"
  /\ UNCHANGED <<session, counters, locals, returned, raised, uncaught,
                 stderr_log, warnings, shown_report, shown_log, displayed,
                 shown_raw>>

(* line 272: Sandbox(api_key=...) opens the session or raises *)
OpenSandbox ==
  /\ pc = "acquire"
  /\ \/ /\ session' = "open"
        /\ pc' = "upload"
        /\ UNCHANGED <<raised, uncaught>>
     \/ \E e \in ErrTexts :
        /\ raised' = [site |-> "sandbox", text |-> e]
        /\ uncaught' = TRUE
        /\ pc' = "done"
        /\ UNCHANGED session
  /\ UNCHANGED <<google_api_key, e2b_api_key, counters, locals, returned,
                 stderr_log, ui>>

\* variant: the session is closed by a call after the pipeline, not by a
\* with block, so a failed upload leaves main() without closing it
upload_dataset_no_exit ==
  /\ pc = "upload"
  /\ uploads' = uploads + 1
  /\ \/ /\ pc' = "model"
        /\ UNCHANGED <<raised, uncaught, errors>>
     \/ \E e \in ErrTexts :
        /\ errors' = Append(errors, "UploadError")
        /\ raised' = [site |-> "upload", text |-> e]
        /\ uncaught' = TRUE
        /\ pc' = "done"
  /\ UNCHANGED <<google_api_key, e2b_api_key, session, releases, model_calls,
                 execs, locals, returned, stderr_log, warnings, shown_report,
                 shown_log, displayed, shown_raw>>

(* lines 91-99 *)
upload_dataset ==
  /\ pc = "upload"
  /\ uploads' = uploads + 1
  /\ \/ /\ pc' = "model"
        /\ UNCHANGED <<raised, uncaught, errors>>
     \/ \E e \in ErrTexts :
        /\ errors' = Append(errors, "UploadError")
        /\ raised' = [site |-> "upload", text |-> e]
        /\ uncaught' = TRUE
        /\ pc' = "exit"
  /\ UNCHANGED <<google_api_key, e2b_api_key, session, releases, model_calls,
                 execs, locals, returned, stderr_log, warnings, shown_report,
                 shown_log, displayed, shown_raw>>

\* variant: no rate-limit branch
except_message_generic(e) == "ErrorOccurred"

(* lines 84-89: the message of the except clause of chat_with_llm *)
except_message(e) ==
  IF IsRateLimit(e) THEN "QuotaExceeded" ELSE "ErrorOccurred"

\* variant: the failed step is attempted again
except_clause_retry(site, e) ==
  /\ raised' = [site |-> site, text |-> e]
  /\ errors' = Append(errors, except_message(e))
  /\ code_results' = NoneResults
  /\ llm_response' = <<>>
  /\ code_stdout' = <<>>
  /\ pc' = site

(* lines 84-89: the except clause, reached from the site that raised e *)
except_clause(site, e) ==
  /\ raised' = [site |-> site, text |-> e]
  /\ errors' = Append(errors, except_message(e))
  /\ code_results' = NoneResults
  /\ llm_response' = <<>>
  /\ code_stdout' = <<>>
  /\ pc' = "render"

(* lines 63-78 and 81-83: the model call and the extraction *)
ModelCall ==
  /\ pc = "model"
  /\ model_calls' = model_calls + 1
  /\ \/ \E e \in ErrTexts :
        /\ except_clause("model", e)
        /\ UNCHANGED <<response_text, python_code, warnings>>
     \/ \E r \in Responses :
        /\ response_text' = r
        /\ python_code' = match_code_blocks(r)
        /\ IF python_code' # <<>>
           THEN /\ pc' = "execute"
                /\ UNCHANGED <<returned, warnings>>
           ELSE /\ warnings' = Append(warnings, "NoCodeMatched")
                /\ code_results' = NoneResults
                /\ llm_response' = r
                /\ code_stdout' = <<>>
                /\ pc' = "render"
        /\ UNCHANGED <<raised, errors>>
  /\ UNCHANGED <<google_api_key, e2b_api_key, session, releases, uploads, execs,
                 exec, uncaught, stderr_log, shown_report, shown_log, displayed,
                 shown_raw>>

\* variant: stderr output is treated as a failed execution
code_interpret_stderr_fatal(ex) ==
  [results |-> IF ex.stderr # <<>> THEN NoneResults ELSE SomeResults(ex.results),
   stdout  |-> IF ex.stderr # <<>> THEN <<>> ELSE join(ex.stdout)]

(* lines 29-35: what code_interpret returns for the Execution ex *)
code_interpret(ex) ==
  [results |-> SomeResults(ex.results), stdout |-> join(ex.stdout)]

(* lines 32-33: the diagnostic print *)
stderr_print(ex) ==
  IF ex.stderr # <<>> THEN <<"[Sandbox Error]">> \o ex.stderr ELSE <<>>

(* lines 79-80 with code_interpret, lines 25-35 *)
Execute ==
  /\ pc = "execute"
  /\ execs' = execs + 1
  /\ \/ \E e \in ErrTexts :
        /\ except_clause("execute", e)
        /\ UNCHANGED <<exec, stderr_log>>
     \/ \E res \in ResultLists, out \in StdoutLists, err \in StderrLists :
        /\ exec' = [ran |-> TRUE, results |-> res, stdout |-> out,
                    stderr |-> err]
        /\ stderr_log' = stderr_print(exec')
        /\ code_results' = code_interpret(exec').results
        /\ llm_response' = response_text
        /\ code_stdout' = code_interpret(exec').stdout
        /\ pc' = "render"
        /\ UNCHANGED <<raised, errors>>
  /\ UNCHANGED <<google_api_key, e2b_api_key, session, releases, uploads,
                 model_calls, response_text, python_code, uncaught, warnings,
                 shown_report, shown_log, displayed, shown_raw>>


\* variant: the DataFrame probe comes first
Classify_frame_first(a) ==
  IF a.frame THEN "TabularData"
  ELSE IF a.png THEN "Image"
  ELSE IF a.figure THEN "PlotFigure"
  ELSE "Unclassified"

(* lines 303-309: the capability probes of the visual tab, in order *)
Classify(a) ==
  IF a.png THEN "Image"
  ELSE IF a.figure THEN "PlotFigure"
  ELSE IF a.frame THEN "TabularData"
  ELSE "Unclassified"

(* lines 302-309: the tags of the artifacts the loop handled *)
visual_tab(items) == [i \in 1..Len(items) |-> Classify(items[i])]

(* lines 276-315: the three result tabs.  b64decode / Image.open of lines *)
(* 304-305 may raise on the k-th artifact when it is shown as an image;   *)
(* k = 0 is the run in which nothing raises.                              *)
Render ==
  /\ pc = "render"
  /\ pc' = "exit"
  /\ IF llm_response = <<>>
     THEN UNCHANGED <<raised, uncaught, ui>>
     ELSE /\ shown_report' = text_report(llm_response)
          /\ shown_log' = code_stdout
          /\ IF Truthy(code_results)
             THEN \E k \in 0..Len(code_results.items) :
                    IF k = 0
                    THEN /\ displayed' = visual_tab(code_results.items)
                         /\ shown_raw' = TRUE
                         /\ UNCHANGED <<raised, uncaught, warnings>>
                    ELSE /\ Classify(code_results.items[k]) = "Image"
                         /\ displayed' =
                              visual_tab(SubSeq(code_results.items, 1, k - 1))
                         /\ raised' = [site |-> "render", text |-> <<>>]
                         /\ uncaught' = TRUE
                         /\ UNCHANGED <<shown_raw, warnings>>
             ELSE /\ warnings' = Append(warnings, "NoVisuals")
                  /\ shown_raw' = TRUE
                  /\ UNCHANGED <<displayed, raised, uncaught>>
          /\ UNCHANGED errors
  /\ UNCHANGED <<google_api_key, e2b_api_key, session, counters, locals,
                 returned, stderr_log>>

(* line 272: Sandbox.__exit__ at the end of the with block, normal or not *)
SandboxExit ==
  /\ pc = "exit"
  /\ session' = "closed"
  /\ releases' = releases + 1
  /\ pc' = "done"
  /\ UNCHANGED <<google_api_key, e2b_api_key, uploads, model_calls, execs,
                 locals, returned, raised, uncaught, stderr_log, ui>>

(* line 102: Streamlit runs main() afresh for the next interaction *)
Rerun ==
  /\ pc = "done"
  /\ pc' = "idle"
  /\ google_api_key' = "" /\ e2b_api_key' = ""
  /\ session' = "none"
  /\ releases' = 0 /\ uploads' = 0 /\ model_calls' = 0 /\ execs' = 0
  /\ response_text' = <<>> /\ python_code' = <<>>
  /\ exec' = NoExecution
  /\ code_results' = NoneResults /\ llm_response' = <<>> /\ code_stdout' = <<>>
  /\ raised' = NoExc
  /\ uncaught' = FALSE
  /\ errors' = <<>> /\ warnings' = <<>>
  /\ stderr_log' = <<>>
  /\ shown_report' = <<>> /\ shown_log' = <<>> /\ displayed' = <<>>
  /\ shown_raw' = FALSE

Next ==
  \/ Start
  \/ OpenSandbox
  \/ upload_dataset
  \/ ModelCall
  \/ Execute
  \/ Render
  \/ SandboxExit
  \/ Rerun

Spec == Init /\ [][Next]_vars


(* ------------------------------------------------------------------ *)
(* The text functions on their own: match_code_blocks (lines 37-42)   *)
(* and the narrative of line 280 applied to an arbitrary text.        *)
(* ------------------------------------------------------------------ *)
InitText ==
  /\ pc = "text"
  /\ response_text \in Texts
  /\ google_api_key = "" /\ e2b_api_key = ""
  /\ session = "none"
  /\ releases = 0 /\ uploads = 0 /\ model_calls = 0 /\ execs = 0
  /\ python_code = <<>>
  /\ exec = NoExecution
  /\ code_results = NoneResults /\ llm_response = <<>> /\ code_stdout = <<>>
  /\ raised = NoExc
  /\ uncaught = FALSE
  /\ errors = <<>> /\ warnings = <<>>
  /\ stderr_log = <<>>
  /\ shown_report = <<>> /\ shown_log = <<>> /\ displayed = <<>>
  /\ shown_raw = FALSE

(* line 76 *)
Extract ==
  /\ pc = "text"
  /\ python_code' = match_code_blocks(response_text)
  /\ llm_response' = response_text
  /\ pc' = "extracted"
  /\ UNCHANGED <<google_api_key, e2b_api_key, session, counters, response_text,
                 exec, code_results, code_stdout, raised, uncaught, stderr_log,
                 ui>>

(* line 280 *)
Narrate ==
  /\ pc = "extracted"
  /\ shown_report' = text_report(llm_response)
  /\ pc' = "narrated"
  /\ UNCHANGED <<google_api_key, e2b_api_key, session, counters, locals,
                 returned, raised, uncaught, stderr_log, errors, warnings,
                 shown_log, displayed, shown_raw>>

NextText == Extract \/ Narrate

SpecText == InitText /\ [][NextText]_vars


(* ------------------------------------------------------------------ *)
(* Vocabulary of the properties, stated without the search operators  *)
(* ------------------------------------------------------------------ *)
\* a complete fenced python block occupies positions i..j+1 of s
BlockAt(s, i, j) ==
  /\ IsOpenAt(s, i)
  /\ j >= i + 3
  /\ IsCloseAt(s, j)
  /\ \A k \in (i+3)..(j-1) : ~IsCloseAt(s, k)

StartsBlock(s, i) == \E j \in 1..Len(s) : BlockAt(s, i, j)
EndOfBlock(s, i)  == CHOOSE j \in 1..Len(s) : BlockAt(s, i, j)
HasBlock(s)       == \E i \in 1..Len(s) : StartsBlock(s, i)

\* the first block of s starts at i
IsFirstBlock(s, i) ==
  /\ StartsBlock(s, i)
  /\ \A k \in 1..(i-1) : ~StartsBlock(s, k)

\* positions of the blocks met walking s from position p, one step at a time
RECURSIVE BlockPositions(_, _)
BlockPositions(s, p) ==
  IF p > Len(s) THEN {}
  ELSE IF StartsBlock(s, p)
       THEN (p..(EndOfBlock(s, p) + 1)) \cup BlockPositions(s, EndOfBlock(s, p) + 2)
       ELSE BlockPositions(s, p + 1)

\* positions of the first block only
FirstBlockPositions(s) ==
  IF HasBlock(s)
  THEN LET i == CHOOSE i \in 1..Len(s) : IsFirstBlock(s, i)
       IN  i..(EndOfBlock(s, i) + 1)
  ELSE {}

\* s without the positions in D
RECURSIVE Without(_, _, _)
Without(s, D, k) ==
  IF k > Len(s) THEN <<>>
  ELSE (IF k \in D THEN <<>> ELSE <<s[k]>>) \o Without(s, D, k + 1)

\* t is s with its leading and trailing whitespace removed
IsTrimOf(t, s) ==
  \E a \in 1..(Len(s) + 1) : \E b \in 0..Len(s) :
    /\ t = SubSeq(s, a, b)
    /\ \A k \in 1..(a-1) : s[k] = NL
    /\ \A k \in (b+1)..Len(s) : s[k] = NL
    /\ t # <<>> => (t[1] # NL /\ t[Len(t)] # NL)

\* t is the lines separated by single newlines
IsJoinOf(t, lines) ==
  IF lines = <<>> THEN t = <<>>
  ELSE /\ Len(t) = 2 * Len(lines) - 1
       /\ \A k \in 1..Len(lines) : t[2*k - 1] = lines[k]
       /\ \A k \in 1..(Len(lines) - 1) : t[2*k] = NL

\* the rate-limit signal of an error text
RateLimitSignal(e) == \E k \in 1..Len(e) : e[k] \in {"429", "ResourceExhausted"}

Ended == pc \in {"exit", "done"}


(* ------------------------------------------------------------------ *)
(* Properties                                                         *)
(* ------------------------------------------------------------------ *)

\* C1: a run that acquired a sandbox session has released it exactly once
\* when main() returns, on every exit path, and no upload or execute happens
\* on a session after its release.
C1_ReleasedExactlyOnce ==
  [][ /\ releases' <= 1
      /\ session' = "none" => releases' = 0
      /\ (pc' = "done" /\ session' # "none") =>
            (session' = "closed" /\ releases' = 1)
      /\ (session = "closed" /\ pc' # "idle") =>
            (session' = "closed" /\ uploads' = uploads /\ execs' = execs)
    ]_vars

C1_Witness ==
  /\ pc = "done"
  /\ raised.site = "execute"
  /\ session = "closed"
  /\ releases = 1

\* C2 as claimed: with at least one complete block, the extracted code is
\* the body of the first block and the narrative is the response with only
\* the first block removed, trimmed.
C2_OnlyFirstBlockRemoved ==
  (pc = "narrated" /\ HasBlock(response_text)) =>
     /\ \E i \in 1..Len(response_text) :
          /\ IsFirstBlock(response_text, i)
          /\ python_code =
               SubSeq(response_text, i + 3, EndOfBlock(response_text, i) - 1)
     /\ IsTrimOf(shown_report,
                 Without(response_text, FirstBlockPositions(response_text), 1))

\* C2 amended: with at least one complete block, the extracted code is the
\* body of the first block and the narrative is the response with every
\* complete block removed (each found scanning on from the end of the
\* previous one), trimmed.
C2_EveryBlockRemoved ==
  (pc = "narrated" /\ HasBlock(response_text)) =>
     /\ \E i \in 1..Len(response_text) :
          /\ IsFirstBlock(response_text, i)
          /\ python_code =
               SubSeq(response_text, i + 3, EndOfBlock(response_text, i) - 1)
     /\ IsTrimOf(shown_report,
                 Without(response_text, BlockPositions(response_text, 1), 1))

C2_Witness ==
  /\ pc = "narrated"
  /\ python_code # <<>>
  /\ shown_report # <<>>
  /\ BlockPositions(response_text, 1) # FirstBlockPositions(response_text)

\* C3: a model-call failure carrying a rate-limit signal ends with the
\* quota-exceeded message only, any other model-call failure with the
\* generic message only; nothing is extracted, executed or rendered.
C3_ModelFailureReport ==
  raised.site = "model" =>
     /\ errors = << IF RateLimitSignal(raised.text)
                    THEN "QuotaExceeded" ELSE "ErrorOccurred" >>
     /\ python_code = <<>>
     /\ execs = 0 /\ ~exec.ran
     /\ code_results = NoneResults
     /\ shown_report = <<>> /\ shown_log = <<>> /\ displayed = <<>>
     /\ ~shown_raw
     /\ warnings = <<>>
     /\ ~uncaught

C3_Witness ==
  /\ pc = "done"
  /\ raised = [site |-> "model", text |-> <<TXT, "429">>]
  /\ errors = <<"QuotaExceeded">>

\* C4: when the model response holds no complete block, the extracted code
\* is empty, execute is never invoked, the user is warned, and the run ends
\* without error with the whole trimmed response as the narrative.
C4_NoBlockNarrativeOnly ==
  (model_calls = 1 /\ raised.site # "model" /\ ~HasBlock(response_text)) =>
     /\ python_code = <<>>
     /\ execs = 0 /\ ~exec.ran
     /\ pc \in {"render", "exit", "done"}
     /\ warnings # <<>> /\ warnings[1] = "NoCodeMatched"
     /\ errors = <<>> /\ raised = NoExc /\ ~uncaught
     /\ Ended => IsTrimOf(shown_report, response_text)

C4_Witness ==
  /\ pc = "done"
  /\ IsOpenAt(response_text, 1)
  /\ ~HasBlock(response_text)
  /\ warnings = <<"NoCodeMatched", "NoVisuals">>
  /\ shown_report # <<>>


\* C5: every artifact the visual tab handled is classified by the first
\* capability it exposes in the order image, plot figure, tabular data, and
\* is unclassified when it exposes none; in particular an artifact that is
\* both an image and tabular is an Image.  Unless an image fails to decode,
\* every artifact is handled.
Capabilities(a) ==
  {c \in 1..3 : (c = 1 /\ a.png) \/ (c = 2 /\ a.figure) \/ (c = 3 /\ a.frame)}

FirstCapability(a) ==
  IF Capabilities(a) = {} THEN "Unclassified"
  ELSE LET c == CHOOSE c \in Capabilities(a) : \A d \in Capabilities(a) : c <= d
       IN  <<"Image", "PlotFigure", "TabularData">>[c]

C5_ClassificationOrder ==
  /\ Len(displayed) <= Len(code_results.items)
  /\ \A k \in 1..Len(displayed) :
       /\ displayed[k] = FirstCapability(code_results.items[k])
       /\ (code_results.items[k].png /\ code_results.items[k].frame) =>
             displayed[k] = "Image"
  /\ (Ended /\ ~uncaught) => Len(displayed) = Len(code_results.items)

C5_Witness ==
  /\ pc = "done"
  /\ \E k \in 1..Len(displayed) :
       /\ code_results.items[k].png
       /\ code_results.items[k].frame
       /\ displayed[k] = "Image"
  /\ \E k \in 1..Len(displayed) : displayed[k] = "TabularData"

\* C6: with either API key absent the pipeline does not start: no session,
\* no upload, no model call, no execution, and the missing-credentials
\* error is the one message.
C6_MissingKeysStopPipeline ==
  (pc # "idle" /\ (google_api_key = "" \/ e2b_api_key = "")) =>
     /\ pc = "done"
     /\ session = "none" /\ releases = 0
     /\ uploads = 0 /\ model_calls = 0 /\ execs = 0
     /\ raised = NoExc /\ ~exec.ran
     /\ errors = <<"MissingKeys">>

C6_Witness ==
  /\ pc = "done"
  /\ google_api_key = "k"
  /\ e2b_api_key = ""
  /\ errors = <<"MissingKeys">>

\* C7: within one run upload, model call and execute are each attempted at
\* most once, after any of them has failed none of the three is attempted
\* again, and an upload failure means no model call and no execution.
C7_NoRetry ==
  [][ /\ uploads' <= 1 /\ model_calls' <= 1 /\ execs' <= 1
      /\ (raised.site # "none" /\ pc' # "idle") =>
            UNCHANGED <<uploads, model_calls, execs>>
      /\ raised'.site = "upload" => (model_calls' = 0 /\ execs' = 0)
      /\ raised'.site \in {"sandbox", "model"} => execs' = 0
    ]_vars

C7_Witness ==
  /\ pc = "done"
  /\ raised.site = "upload"
  /\ uploads = 1 /\ model_calls = 0 /\ execs = 0
  /\ releases = 1


\* C8: every fatal condition (missing credentials, sandbox unavailable,
\* upload failure, model quota exceeded, other model-call failure, sandbox
\* execution failure) ends with exactly one error message whose category
\* matches the cause: missing-credentials only for absent keys, rate-limit
\* only for a rate-limit signal of the model call, generic for every other
\* cause.  An exception that leaves main() with no st.error before it is
\* counted as the one generic message the Streamlit runtime shows for it.
MissingKeys == google_api_key = "" \/ e2b_api_key = ""

FatalCondition ==
  MissingKeys \/ raised.site \in {"sandbox", "upload", "model", "execute"}

CauseCategory ==
  IF MissingKeys THEN "credentials"
  ELSE IF raised.site = "model" /\ RateLimitSignal(raised.text) THEN "rate_limit"
  ELSE "generic"

MessageCategory(m) ==
  IF m = "MissingKeys" THEN "credentials"
  ELSE IF m = "QuotaExceeded" THEN "rate_limit"
  ELSE "generic"

C8_OneMessageMatchingCause ==
  (pc = "done" /\ FatalCondition) =>
     /\ Len(errors) = 1 \/ (errors = <<>> /\ uncaught)
     /\ \A k \in 1..Len(errors) : MessageCategory(errors[k]) = CauseCategory

\* C9: an execution that returns is never failed by its stderr: whatever
\* stderr holds, the artifacts and the joined stdout are returned as the
\* sandbox gave them, no error is reported, every artifact reaches the
\* visual tab (unless an image fails to decode) and stderr is only logged.
C9_StderrNotFatal ==
  exec.ran =>
     /\ code_results = SomeResults(exec.results)
     /\ IsJoinOf(code_stdout, exec.stdout)
     /\ llm_response = response_text
     /\ errors = <<>>
     /\ raised.site \in {"none", "render"}
     /\ uncaught => raised.site = "render"
     /\ (stderr_log # <<>>) <=> (exec.stderr # <<>>)
     /\ (Ended /\ ~uncaught) =>
           /\ Len(displayed) = Len(exec.results)
           /\ shown_log = code_stdout
           /\ shown_raw

C9_Witness ==
  /\ pc = "done"
  /\ exec.ran
  /\ exec.stderr # <<>>
  /\ exec.stdout # <<>>
  /\ Len(displayed) = MaxArtifacts
  /\ shown_log # <<>>
  /\ ~uncaught

\* C10: code ran and the sandbox returned no artifact: the run ends without
\* error, nothing is classified, the narrative and the execution log are
\* presented and the no-visual-artifacts warning is shown.
C10_EmptyArtifactsDone ==
  (Ended /\ exec.ran /\ exec.results = <<>>) =>
     /\ ~uncaught /\ raised = NoExc /\ errors = <<>>
     /\ displayed = <<>>
     /\ warnings = <<"NoVisuals">>
     /\ IsTrimOf(shown_report,
                 Without(response_text, BlockPositions(response_text, 1), 1))
     /\ IsJoinOf(shown_log, exec.stdout)
     /\ shown_raw

C10_Witness ==
  /\ pc = "done"
  /\ exec.ran
  /\ exec.results = <<>>
  /\ shown_report # <<>>
  /\ shown_log # <<>>
  /\ warnings = <<"NoVisuals">>

====
